---- MODULE Spec2Model ----
(***************************************************************************)
(* PCB Research Tool: the flat-file JSON store, the per-session in-memory  *)
(* collection, the query engine and the four export encoders.              *)
(*                                                                         *)
(* One action is one run of main() for one browser session (Streamlit      *)
(* re-runs the script top to bottom on every interaction).  The drafts     *)
(* PCBResearchToolv2.py (add, multi-select search, market analysis) and    *)
(* pcbresearchtoolv3.py (the same search followed by the exports) are      *)
(* modelled as one application, as v3 states for its elided pages.         *)
(*                                                                         *)
(* Python values carry their type:  <<"str", s>>, <<"int", n>>,            *)
(* <<"list", seq>>.  A dict is a function from its keys to values; its key *)
(* order is the order of FieldOrder (the order new_entry is built in).     *)
(***************************************************************************)
EXTENDS Integers, Sequences, FiniteSets, TLC

VARIABLES
    file,          \* pcb_database.json: NoFile, or the JSON document in it
    inState,       \* inState[s]: 'pcb_database' in st.session_state of s
    pcb_database,  \* pcb_database[s]: st.session_state.pcb_database of s
    loaded,        \* history: what load_database() returned to s
    loads,         \* history: number of load_database() calls made by s
    notice,        \* the message the latest run of main() showed
    results,       \* the search results the latest run showed
    charts,        \* the frequency tables the latest run drew
    input,         \* PureSpec: the record sequence the functions are given
    output         \* PureSpec: the latest function applied and its result

vars == <<file, inState, pcb_database, loaded, loads, notice, results,
          charts, input, output>>

----------------------------------------------------------------------------
(* Bounds *)

NumSessions == 2
MaxRecords == 1
MaxLen == 2

Sessions == 1..NumSessions

----------------------------------------------------------------------------
(* Python values *)

PyStr(s) == <<"str", s>>
PyInt(n) == <<"int", n>>
PyList(q) == <<"list", q>>

IsStr(v) == v[1] = "str"
IsInt(v) == v[1] = "int"

\* The strings of the model, in ascending code-point order (Python's str <).
StrOrder ==
    << "", "10", "2024-01-01 09:00:00", "2024-06-30 17:30:00", "3", "A1", "ATX",
       "Acme", "Automotive", "IoT", "Medical", "Ranger", "Z9", "Zylo", "acme",
       "mini" >>

StrRank(s) == CHOOSE i \in 1..Len(StrOrder) : StrOrder[i] = s

\* Python's < on two values of the same type.
PyLess(a, b) ==
    IF IsInt(a) THEN a[2] < b[2] ELSE StrRank(a[2]) < StrRank(b[2])

\* str.lower(): the strings of the model that contain an upper-case letter.
Lower(s) ==
    CASE s = "A1" -> "a1"
      [] s = "ATX" -> "atx"
      [] s = "Acme" -> "acme"
      [] s = "Automotive" -> "automotive"
      [] s = "IoT" -> "iot"
      [] s = "Medical" -> "medical"
      [] s = "Z9" -> "z9"
      [] s = "Zylo" -> "zylo"
      [] OTHER -> s

\* The keys of new_entry, in the order the dict literal lists them.
FieldOrder ==
    << "form_factor", "model_number", "make", "model", "use_cases", "purpose",
       "market_use", "age_in_market", "competing_products", "entry_date" >>

Fields == { FieldOrder[i] : i \in 1..Len(FieldOrder) }

\* dict.keys() / dict.items(): the keys of a dict in order.
Keys(d) == SelectSeq(FieldOrder, LAMBDA k : k \in DOMAIN d)

----------------------------------------------------------------------------
(* Text formatting *)

Digits == << "0", "1", "2", "3", "4", "5", "6", "7", "8", "9" >>

\* str(n) for a non-negative int.
RECURSIVE IntStr(_)
IntStr(n) ==
    IF n < 10 THEN Digits[n + 1]
    ELSE IntStr(n \div 10) \o Digits[(n % 10) + 1]

\* sep.join(q) for a sequence of strings.
RECURSIVE Join(_, _)
Join(sep, q) ==
    IF q = <<>> THEN ""
    ELSE IF Len(q) = 1 THEN q[1]
    ELSE q[1] \o sep \o Join(sep, Tail(q))

\* The strings held by a list of str.
Texts(v) == [i \in 1..Len(v[2]) |-> v[2][i][2]]

\* str(v), as an f-string or ElementTree text renders a str or an int.
StrOf(v) == IF IsInt(v) THEN IntStr(v[2]) ELSE v[2]

----------------------------------------------------------------------------
(* json.dump and json.load *)

NoFile == <<"absent">>

\* json.dump of one value of a record: str -> string, int -> number,
\* list -> array of its elements.
JsonValue(v) ==
    CASE v[1] = "str" -> <<"string", v[2]>>
      [] v[1] = "int" -> <<"number", v[2]>>
      [] v[1] = "list" ->
            <<"array", [i \in 1..Len(v[2]) |-> <<"string", v[2][i][2]>>]>>

\* json.dump of a dict: an object with one member per key, in key order.
JsonObject(d) ==
    LET keys == Keys(d)
    IN  <<"object", [i \in 1..Len(keys) |-> <<keys[i], JsonValue(d[keys[i]])>>]>>

\* json.dumps(data, indent=4) for a list of dicts.
JsonDumps(data) ==
    <<"array", [i \in 1..Len(data) |-> JsonObject(data[i])]>>

\* Mutant of PyValue: a number is read back as its text.
PyValueNumberAsText(j) ==
    CASE j[1] = "string" -> PyStr(j[2])
      [] j[1] = "number" -> PyStr(IntStr(j[2]))
      [] j[1] = "array" ->
            PyList([i \in 1..Len(j[2]) |-> PyStr(j[2][i][2])])

\* json.load of one member value: string -> str, number -> int,
\* array -> list.
PyValue(j) ==
    CASE j[1] = "string" -> PyStr(j[2])
      [] j[1] = "number" -> PyInt(j[2])
      [] j[1] = "array" ->
            PyList([i \in 1..Len(j[2]) |-> PyStr(j[2][i][2])])

\* json.load of an object: a dict with the members' names as keys.
PyDict(j) ==
    LET members == j[2]
        names == { members[i][1] : i \in 1..Len(members) }
    IN  [k \in names |->
            PyValue((CHOOSE m \in { members[i] : i \in 1..Len(members) } :
                        m[1] = k)[2])]

\* json.load for a document holding an array of objects.
JsonLoad(doc) == [i \in 1..Len(doc[2]) |-> PyDict(doc[2][i])]

\* load_database(): [] when the file does not exist, else its contents.
load_database(f) == IF f # NoFile THEN JsonLoad(f) ELSE <<>>

\* Mutant of save_database: the file is written before the append reaches
\* the list (the new record is not in it).
SaveBeforeAppend(data) ==
    JsonDumps(SubSeq(data, 1, Len(data) - 1))

\* save_database(data): the file after open(..., 'w') and json.dump.
save_database(data) == JsonDumps(data)

----------------------------------------------------------------------------
(* The add-entry form *)

\* The values of the form's widgets at a submit, and the clock's reading.
Widgets(form_factor, model_number, make, model, use_cases, age_in_market, now) ==
    [ form_factor |-> form_factor, model_number |-> model_number,
      make |-> make, model |-> model, use_cases |-> use_cases, purpose |-> "",
      market_use |-> "", age_in_market |-> age_in_market,
      competing_products |-> "", now |-> now ]

\* The dict built on submit from the widgets' values w.
new_entry(w) ==
    [ form_factor |-> PyStr(w.form_factor),
      model_number |-> PyStr(w.model_number),
      make |-> PyStr(w.make),
      model |-> PyStr(w.model),
      use_cases |->
         PyList([i \in 1..Len(w.use_cases) |-> PyStr(w.use_cases[i])]),
      purpose |-> PyStr(w.purpose),
      market_use |-> PyStr(w.market_use),
      age_in_market |-> PyInt(w.age_in_market),
      competing_products |-> PyStr(w.competing_products),
      entry_date |-> PyStr(w.now) ]

Acme == Widgets("ATX", "A1", "Acme", "Ranger", <<"Medical", "IoT">>, 3,
                "2024-01-01 09:00:00")
AcmeLower == Widgets("mini", "A1", "acme", "", <<"IoT">>, 10,
                     "2024-06-30 17:30:00")
Zylo == Widgets("ATX", "Z9", "Zylo", "", <<"Automotive">>, 3,
                "2024-01-01 09:00:00")

\* The form submissions the sessions draw from.
FormInputs == { Acme, AcmeLower }

Entries == { new_entry(w) : w \in FormInputs }

----------------------------------------------------------------------------
(* Query engine *)

\* Mutant of Sorted: descending order (reverse=True).
RECURSIVE SortedDescending(_)
SortedDescending(S) ==
    IF S = {} THEN <<>>
    ELSE LET m == CHOOSE x \in S : \A y \in S : ~PyLess(x, y)
         IN  <<m>> \o SortedDescending(S \ {m})

\* sorted(list(S)): the elements of a set of values in ascending order.
RECURSIVE Sorted(_)
Sorted(S) ==
    IF S = {} THEN <<>>
    ELSE LET m == CHOOSE x \in S : \A y \in S : ~PyLess(y, x)
         IN  <<m>> \o Sorted(S \ {m})

\* item[field] raises KeyError for a record without the field.
UniqueRaises(database, field) ==
    \E i \in 1..Len(database) : field \notin DOMAIN database[i]

\* Mutant of get_unique_values: every value is converted with str().
UniqueValuesAsText(database, field) ==
    IF field # "use_cases"
    THEN Sorted({ PyStr(StrOf(database[i][field])) : i \in 1..Len(database) })
    ELSE Sorted(UNION { { database[i][field][2][j] :
                            j \in 1..Len(database[i][field][2]) } :
                        i \in 1..Len(database) })

\* get_unique_values(database, field) when no lookup raises.
get_unique_values(database, field) ==
    IF field # "use_cases"
    THEN Sorted({ database[i][field] : i \in 1..Len(database) })
    ELSE Sorted(UNION { { database[i][field][2][j] :
                            j \in 1..Len(database[i][field][2]) } :
                        i \in 1..Len(database) })

\* field_map, extended by the key the "Use Cases" branch reads.
SearchTypes == { "Model Number", "Make", "Form Factor", "Use Cases" }

field_map(search_type) ==
    CASE search_type = "Model Number" -> "model_number"
      [] search_type = "Make" -> "make"
      [] search_type = "Form Factor" -> "form_factor"
      [] search_type = "Use Cases" -> "use_cases"

\* Mutant of Matches: the comparison ignores case, as the single-term
\* search of the first draft does.
MatchesIgnoringCase(pcb, search_type, search_terms) ==
    IF search_type = "Use Cases"
    THEN \E term \in search_terms :
            \E j \in 1..Len(pcb["use_cases"][2]) :
               Lower(pcb["use_cases"][2][j][2]) = Lower(term[2])
    ELSE \E term \in search_terms :
            Lower(pcb[field_map(search_type)][2]) = Lower(term[2])

\* The test the search loop applies to one record.
Matches(pcb, search_type, search_terms) ==
    IF search_type = "Use Cases"
    THEN \E term \in search_terms :
            \E j \in 1..Len(pcb["use_cases"][2]) : pcb["use_cases"][2][j] = term
    ELSE pcb[field_map(search_type)] \in search_terms

\* The search loop: results.append(pcb) for each matching record, in order.
RECURSIVE Search(_, _, _)
Search(database, search_type, search_terms) ==
    IF database = <<>> THEN <<>>
    ELSE LET rest == Search(Tail(database), search_type, search_terms)
         IN  IF Matches(Head(database), search_type, search_terms)
             THEN <<Head(database)>> \o rest
             ELSE rest

\* The keys the result expanders read from each record.
DisplayKeys ==
    { "make", "model_number", "form_factor", "use_cases", "purpose",
      "market_use", "age_in_market", "competing_products" }

DisplayRaises(rs) == \E i \in 1..Len(rs) : ~(DisplayKeys \subseteq DOMAIN rs[i])

----------------------------------------------------------------------------
(* Export encoders *)

NoPayload == <<"none">>

\* Mutant of PdfKeys: export_to_pdf reads every field of the record.
PdfKeysAllFields == Fields

\* The keys export_to_pdf reads from each record.
PdfKeys ==
    { "make", "model_number", "form_factor", "use_cases", "purpose",
      "market_use", "age_in_market", "competing_products" }

\* export_to_pdf raises KeyError at the first record lacking a key it reads.
PdfRaises(rs) == \E i \in 1..Len(rs) : ~(PdfKeys \subseteq DOMAIN rs[i])

\* Mutant of PdfEntry: the "Market Use" cell is left out.
PdfEntryWithoutMarketUse(pcb) ==
    << pcb["make"][2] \o " - " \o pcb["model_number"][2],
       "Form Factor: " \o pcb["form_factor"][2],
       "Use Cases: " \o Join(", ", Texts(pcb["use_cases"])),
       "Purpose: " \o pcb["purpose"][2],
       "Age in Market: " \o StrOf(pcb["age_in_market"]) \o " years",
       "Competing Products: " \o pcb["competing_products"][2],
       "" >>

\* The cells export_to_pdf writes for one record.
PdfEntry(pcb) ==
    << pcb["make"][2] \o " - " \o pcb["model_number"][2],
       "Form Factor: " \o pcb["form_factor"][2],
       "Use Cases: " \o Join(", ", Texts(pcb["use_cases"])),
       "Purpose: " \o pcb["purpose"][2],
       "Market Use: " \o pcb["market_use"][2],
       "Age in Market: " \o StrOf(pcb["age_in_market"]) \o " years",
       "Competing Products: " \o pcb["competing_products"][2],
       "" >>

RECURSIVE PdfCells(_)
PdfCells(rs) ==
    IF rs = <<>> THEN <<>> ELSE PdfEntry(Head(rs)) \o PdfCells(Tail(rs))

\* export_to_pdf(results): the title cell, then the cells of each record.
export_to_pdf(rs) == <<"pdf", <<"PCB Research Results">> \o PdfCells(rs)>>

\* One child element of a PCB element: <key>text</key>, or <use_cases> with
\* one <case> per entry.
XmlField(key, value) ==
    IF key = "use_cases"
    THEN <<"use_cases", "",
           [j \in 1..Len(value[2]) |-> <<"case", value[2][j][2], <<>>>>]>>
    ELSE <<key, StrOf(value), <<>>>>

XmlPcb(pcb) ==
    LET keys == Keys(pcb)
    IN  <<"PCB", "", [k \in 1..Len(keys) |-> XmlField(keys[k], pcb[keys[k]])]>>

\* export_to_xml(results): the element tree ET.tostring serialises.
export_to_xml(rs) ==
    <<"xml", <<"PCBDatabase", "", [i \in 1..Len(rs) |-> XmlPcb(rs[i])]>>>>

\* pd.DataFrame(results).columns: the keys in order of first appearance.
RECURSIVE Columns(_, _)
Columns(rs, seen) ==
    IF rs = <<>> THEN seen
    ELSE Columns(Tail(rs),
                 seen \o SelectSeq(Keys(Head(rs)),
                            LAMBDA k : \A i \in 1..Len(seen) : seen[i] # k))

\* One cell of the CSV: "" for a missing key; an int of a column with a
\* missing value is written as a float (the column holds NaN).
CsvCell(rs, i, key) ==
    IF key \notin DOMAIN rs[i] THEN ""
    ELSE LET v == rs[i][key]
         IN  CASE v[1] = "str" -> v[2]
               [] v[1] = "int" ->
                    IF \E j \in 1..Len(rs) : key \notin DOMAIN rs[j]
                    THEN IntStr(v[2]) \o ".0"
                    ELSE IntStr(v[2])
               [] v[1] = "list" ->
                    "[" \o Join(", ", [j \in 1..Len(v[2]) |->
                                        "'" \o v[2][j][2] \o "'"]) \o "]"

\* pd.DataFrame(results).to_csv(index=False): the header row, then one row
\* per record with an empty cell for a missing key.
export_to_csv(rs) ==
    LET cols == Columns(rs, <<>>)
    IN  <<"csv", <<cols>> \o
                 [i \in 1..Len(rs) |->
                    [c \in 1..Len(cols) |-> CsvCell(rs, i, cols[c])]]>>

\* json.dumps(results, indent=4)
export_to_json(rs) == <<"json", JsonDumps(rs)>>

NoPayloads ==
    [csv |-> NoPayload, pdf |-> NoPayload, xml |-> NoPayload, json |-> NoPayload]

\* The export columns of the search page, in order; the run ends at the
\* first exception, keeping the links already rendered.
Exports(rs) ==
    IF PdfRaises(rs)
    THEN [NoPayloads EXCEPT !.csv = export_to_csv(rs)]
    ELSE [csv |-> export_to_csv(rs),
          pdf |-> export_to_pdf(rs),
          xml |-> export_to_xml(rs),
          json |-> export_to_json(rs)]

----------------------------------------------------------------------------
(* Market analysis *)

\* value_counts(): how often each value occurs in a list of values.
ValueCounts(q) ==
    [v \in { q[i] : i \in 1..Len(q) } |->
        Cardinality({ i \in 1..Len(q) : q[i] = v })]

\* [item for sublist in df['use_cases'] for item in sublist]
RECURSIVE Flatten(_)
Flatten(database) ==
    IF database = <<>> THEN <<>>
    ELSE Head(database)["use_cases"][2] \o Flatten(Tail(database))

Column(database, key) == [i \in 1..Len(database) |-> database[i][key]]

NoCharts == <<"none">>

\* The four frequency tables of the market analysis page.
MarketCharts(database) ==
    <<"charts",
      [use_cases |-> ValueCounts(Flatten(database)),
       age_in_market |-> ValueCounts(Column(database, "age_in_market")),
       make |-> ValueCounts(Column(database, "make")),
       form_factor |-> ValueCounts(Column(database, "form_factor"))]>>

----------------------------------------------------------------------------
(* State machine: one action per run of main() *)

NoOutput == [op |-> "none", args |-> <<>>, value |-> <<>>]

\* The stores the first session can find: no file (a fresh deployment), or
\* the file an earlier submit wrote.
InitialStores == { NoFile, save_database(<<new_entry(Zylo)>>) }

Init ==
    /\ file \in InitialStores
    /\ inState = [s \in Sessions |-> FALSE]
    /\ pcb_database = [s \in Sessions |-> <<>>]
    /\ loaded = [s \in Sessions |-> <<>>]
    /\ loads = [s \in Sessions |-> 0]
    /\ notice = "none"
    /\ results = <<>>
    /\ charts = NoCharts
    /\ input = <<>>
    /\ output = NoOutput

\* Mutant of Database: the collection is re-read from the store on every
\* run (the "not in st.session_state" test dropped).
\* "if 'pcb_database' not in st.session_state: ... = load_database()":
\* the collection main() works on after that statement.
DatabaseReloaded(s) == load_database(file)

Database(s) ==
    IF ~inState[s] THEN load_database(file) ELSE pcb_database[s]

Initialize(s) ==
    /\ inState' = [inState EXCEPT ![s] = TRUE]
    /\ loaded' = IF ~inState[s]
                 THEN [loaded EXCEPT ![s] = load_database(file)]
                 ELSE loaded
    /\ loads' = IF ~inState[s] THEN [loads EXCEPT ![s] = @ + 1] ELSE loads

\* Mutant of AddPage: a missing store file is created, empty, at start-up.
AddPageCreatingStore(s) ==
    /\ Initialize(s)
    /\ pcb_database' = [pcb_database EXCEPT ![s] = Database(s)]
    /\ file' = IF file = NoFile THEN save_database(<<>>) ELSE file
    /\ notice' = "none"
    /\ results' = <<>>
    /\ charts' = NoCharts
    /\ UNCHANGED <<input, output>>

\* The "Add New PCB" page rendered without a submit; the page a session's
\* first run shows (the selectbox default).
AddPage(s) ==
    /\ Initialize(s)
    /\ pcb_database' = [pcb_database EXCEPT ![s] = Database(s)]
    /\ notice' = "none"
    /\ results' = <<>>
    /\ charts' = NoCharts
    /\ UNCHANGED <<file, input, output>>

\* Mutant of Submit: a read-modify-write of the store (load, append, save)
\* instead of an append to the session's copy.
SubmitReadModifyWrite(s, w) ==
    /\ inState[s]
    /\ Len(pcb_database[s]) < MaxRecords
    /\ Initialize(s)
    /\ pcb_database' =
          [pcb_database EXCEPT ![s] = Append(load_database(file), new_entry(w))]
    /\ file' = save_database(pcb_database'[s])
    /\ notice' = "success: PCB entry added successfully!"
    /\ results' = <<>>
    /\ charts' = NoCharts
    /\ UNCHANGED <<input, output>>

\* Mutant of Submit: the append to the session's copy without the
\* save_database call that follows it.
SubmitWithoutSave(s, w) ==
    /\ inState[s]
    /\ Len(pcb_database[s]) < MaxRecords
    /\ Initialize(s)
    /\ pcb_database' =
          [pcb_database EXCEPT ![s] = Append(Database(s), new_entry(w))]
    /\ notice' = "success: PCB entry added successfully!"
    /\ results' = <<>>
    /\ charts' = NoCharts
    /\ UNCHANGED <<file, input, output>>

\* The form submitted with widget values w: append new_entry, save.  A
\* submit comes from a form an earlier run of the session rendered.
Submit(s, w) ==
    /\ inState[s]
    /\ Len(pcb_database[s]) < MaxRecords
    /\ Initialize(s)
    /\ pcb_database' =
          [pcb_database EXCEPT ![s] = Append(Database(s), new_entry(w))]
    /\ file' = save_database(pcb_database'[s])
    /\ notice' = "success: PCB entry added successfully!"
    /\ results' = <<>>
    /\ charts' = NoCharts
    /\ UNCHANGED <<input, output>>

\* The options the search multiselect offers: the values occurring in the
\* collection (nothing is offered for an empty collection, where main()
\* returns, nor when get_unique_values raises).
Options(database, search_type) ==
    IF database = <<>> \/ UniqueRaises(database, field_map(search_type))
    THEN {}
    ELSE LET options == get_unique_values(database, field_map(search_type))
         IN  { options[i] : i \in 1..Len(options) }

\* The "Search PCB" page with a search type and a multiselect selection.
SearchPage(s, search_type, search_terms) ==
    /\ inState[s]
    /\ Initialize(s)
    /\ pcb_database' = [pcb_database EXCEPT ![s] = Database(s)]
    /\ IF Database(s) = <<>>
       THEN /\ notice' = "info: No PCB entries available."
            /\ results' = <<>>
       ELSE LET found == Search(Database(s), search_type, search_terms)
            IN  /\ results' = IF search_terms # {} THEN found ELSE <<>>
                /\ notice' =
                      IF search_terms = {} THEN "none"
                      ELSE IF found = <<>> THEN "warning: No results found."
                      ELSE IF DisplayRaises(found) \/ PdfRaises(found)
                           THEN "KeyError"
                      ELSE "Found results"
    /\ charts' = NoCharts
    /\ UNCHANGED <<file, input, output>>

\* The download links of the page the latest run rendered: the exports of
\* the results it displayed ("if results:", after the expanders).
payloads ==
    IF results = <<>> \/ DisplayRaises(results) THEN NoPayloads
    ELSE Exports(results)

\* The "Market Analysis" page.
MarketAnalysis(s) ==
    /\ inState[s]
    /\ Initialize(s)
    /\ pcb_database' = [pcb_database EXCEPT ![s] = Database(s)]
    /\ IF Database(s) # <<>>
       THEN /\ charts' = MarketCharts(Database(s))
            /\ notice' = "none"
       ELSE /\ charts' = NoCharts
            /\ notice' = "info: No data available for analysis."
    /\ results' = <<>>
    /\ UNCHANGED <<file, input, output>>

Next ==
    \/ \E s \in Sessions : AddPage(s)
    \/ \E s \in Sessions : \E w \in FormInputs : Submit(s, w)
    \/ \E s \in Sessions : \E search_type \in SearchTypes :
          \E search_terms \in SUBSET Options(Database(s), search_type) :
             SearchPage(s, search_type, search_terms)
    \/ \E s \in Sessions : MarketAnalysis(s)

Spec == Init /\ [][Next]_vars

----------------------------------------------------------------------------
(* Claims about the sessions and the store (checked under Spec) *)

Success == "success: PCB entry added successfully!"

C2_LostUpdate ==
    [][\A s \in Sessions : \A t \in Sessions \ {s} : \A w \in FormInputs :
          ( /\ notice' = Success
            /\ Submit(s, w)
            /\ inState[t]
            /\ loaded[s] = loaded[t]
            /\ pcb_database[s] = loaded[s]
            /\ Len(pcb_database[t]) = Len(loaded[t]) + 1 )
          => /\ load_database(file') = pcb_database'[s]
             /\ load_database(file') = Append(loaded[t], new_entry(w))
             /\ Len(load_database(file')) = Len(pcb_database[t])
             /\ pcb_database'[t] = pcb_database[t]
             /\ notice' = Success]_vars

\* Both sessions started from the same contents and each submitted one
\* record; the store holds the one of s and not the different one of t.
C2_Witness ==
    \E s \in Sessions : \E t \in Sessions \ {s} :
       /\ inState[s] /\ inState[t]
       /\ loaded[s] = loaded[t]
       /\ Len(pcb_database[s]) = Len(loaded[s]) + 1
       /\ Len(pcb_database[t]) = Len(loaded[t]) + 1
       /\ pcb_database[s] # pcb_database[t]
       /\ load_database(file) = pcb_database[s]
       /\ notice = Success

\* C4: the first run of a session when no store file exists: load_database()
\* returns the empty sequence, no error is shown, the file is not created,
\* and the session holds an empty collection.
C4_LoadWithoutStore ==
    [][\A s \in Sessions :
          (~inState[s] /\ file = NoFile /\ AddPage(s))
          => /\ loaded'[s] = <<>>
             /\ pcb_database'[s] = <<>>
             /\ inState'[s]
             /\ file' = NoFile
             /\ notice' = "none"]_vars

\* A session has started without a store file, and there is still none.
C4_Witness ==
    /\ file = NoFile
    /\ \E s \in Sessions :
          inState[s] /\ loads[s] = 1 /\ loaded[s] = <<>> /\ pcb_database[s] = <<>>

Alone(s) == inState[s] /\ \A t \in Sessions \ {s} : ~inState[t]

\* C11: while exactly one session has accessed the store (no other session
\* has run, so nothing else has written the file), after that session's
\* initialization and after each of its completed submits load_database()
\* returns a sequence equal to the session's in-memory collection: the store
\* is neither ahead of nor behind the session's copy between interactions.
C11_SingleSessionConsistent ==
    \A s \in Sessions : Alone(s) => load_database(file) = pcb_database[s]

\* The only session that has run has completed a submit, and the store
\* holds its collection: what it had read followed by the new record.
C11_Witness ==
    /\ notice = Success
    /\ \E s \in Sessions :
          /\ Alone(s)
          /\ pcb_database[s] # loaded[s]
          /\ Len(pcb_database[s]) = Len(loaded[s]) + 1
          /\ load_database(file) = pcb_database[s]

----------------------------------------------------------------------------
(* The store, the query engine and the encoders as functions: one of them *)
(* is applied, once, to a record sequence drawn at the start.              *)

\* A dict without one key: a record that lacks a field.
Without(d, key) == [k \in (DOMAIN d) \ {key} |-> d[k]]

\* The records the sequences are built from: three complete records (two
\* from the form inputs) and the first of them with one field missing.
SampleRecords ==
    Entries \cup { new_entry(Zylo) }
    \cup { Without(new_entry(Acme), f) : f \in Fields }

PureInputs == UNION { [1..n -> SampleRecords] : n \in 0..MaxLen }

Ok(v) == <<"ok", v>>
KeyError == <<"raise", "KeyError">>

PureInit ==
    /\ file = NoFile
    /\ inState = [s \in Sessions |-> FALSE]
    /\ pcb_database = [s \in Sessions |-> <<>>]
    /\ loaded = [s \in Sessions |-> <<>>]
    /\ loads = [s \in Sessions |-> 0]
    /\ notice = "none"
    /\ results = <<>>
    /\ charts = NoCharts
    /\ input \in PureInputs
    /\ output = NoOutput

Rest == <<inState, pcb_database, loaded, loads, notice, results, charts, input>>

\* save_database(input), then load_database().
SaveThenLoad ==
    /\ output = NoOutput
    /\ file' = save_database(input)
    /\ output' = [op |-> "load", args |-> <<>>,
                  value |-> Ok(load_database(file'))]
    /\ UNCHANGED Rest

\* get_unique_values(input, field)
UniqueValues(field) ==
    /\ output = NoOutput
    /\ output' = [op |-> "get_unique_values", args |-> <<field>>,
                  value |-> IF UniqueRaises(input, field) THEN KeyError
                            ELSE Ok(get_unique_values(input, field))]
    /\ UNCHANGED <<file, Rest>>

\* The search of main() on input: the options, the selection, the loop.
Filter(search_type, search_terms) ==
    /\ output = NoOutput
    /\ ~UniqueRaises(input, field_map(search_type))
    /\ search_terms # {}
    /\ output' = [op |-> "search", args |-> <<search_type, search_terms>>,
                  value |-> Ok(Search(input, search_type, search_terms))]
    /\ UNCHANGED <<file, Rest>>

ExportCsv ==
    /\ output = NoOutput
    /\ output' = [op |-> "csv", args |-> <<>>, value |-> Ok(export_to_csv(input))]
    /\ UNCHANGED <<file, Rest>>

ExportPdf ==
    /\ output = NoOutput
    /\ output' = [op |-> "pdf", args |-> <<>>,
                  value |-> IF PdfRaises(input) THEN KeyError
                            ELSE Ok(export_to_pdf(input))]
    /\ UNCHANGED <<file, Rest>>

ExportXml ==
    /\ output = NoOutput
    /\ output' = [op |-> "xml", args |-> <<>>, value |-> Ok(export_to_xml(input))]
    /\ UNCHANGED <<file, Rest>>

ExportJson ==
    /\ output = NoOutput
    /\ output' = [op |-> "json", args |-> <<>>,
                  value |-> Ok(export_to_json(input))]
    /\ UNCHANGED <<file, Rest>>

PureNext ==
    \/ SaveThenLoad
    \/ \E field \in Fields : UniqueValues(field)
    \/ \E search_type \in SearchTypes :
          \E search_terms \in SUBSET Options(input, search_type) :
             Filter(search_type, search_terms)
    \/ ExportCsv
    \/ ExportPdf
    \/ ExportXml
    \/ ExportJson

PureSpec == PureInit /\ [][PureNext]_vars

----------------------------------------------------------------------------
(* Claims about the functions (checked under PureSpec) *)

Complete(database) == \A i \in 1..Len(database) : DOMAIN database[i] = Fields

\* C3: save_database(records) followed by load_database() returns records:
\* the same records in the same order, with the same field values and the
\* same order inside each use_cases list.
C3_RoundTrip ==
    output.op = "load" =>
       /\ output.value = Ok(input)
       /\ file = save_database(input)
       /\ \A i \in 1..Len(input) : \A k \in DOMAIN input[i] :
             output.value[2][i][k] = input[i][k]

\* Two different records, one with a two-entry use_cases list, were saved
\* and loaded.
C3_Witness ==
    /\ output.op = "load"
    /\ Len(input) = 2
    /\ Complete(input)
    /\ input[1] # input[2]
    /\ \E i \in 1..2 : Len(input[i]["use_cases"][2]) = 2

\* The selection test of the filter contract, for a search type and a
\* selection V.
Selected(pcb, search_type, V) ==
    IF search_type = "Use Cases"
    THEN { pcb["use_cases"][2][j] : j \in 1..Len(pcb["use_cases"][2]) } \cap V # {}
    ELSE pcb[field_map(search_type)] \in V

\* C5: for a non-empty selection V the multi-select search returns exactly
\* the records with record[f] in V (exact equality), or, for use_cases, the
\* records whose use_cases list shares an element with V; in the order of
\* the collection, each record once.
C5_FilterCorrect ==
    output.op = "search" =>
       output.value =
          Ok(SelectSeq(input,
                LAMBDA pcb : Selected(pcb, output.args[1], output.args[2])))

\* A use-case search with two selected terms that keeps a record carrying
\* both and drops another record.
C5_Witness ==
    /\ output.op = "search"
    /\ output.args[1] = "Use Cases"
    /\ output.args[2] = { PyStr("IoT"), PyStr("Medical") }
    /\ Len(input) = 2
    /\ Len(output.value[2]) = 1
    /\ Len(output.value[2][1]["use_cases"][2]) = 2

\* The values of a field occurring in a collection.
Occurring(database, field) ==
    IF field = "use_cases"
    THEN UNION { { database[i][field][2][j] :
                     j \in 1..Len(database[i][field][2]) } :
                 i \in 1..Len(database) }
    ELSE { database[i][field] : i \in 1..Len(database) }

\* C6: get_unique_values(database, f) holds exactly the values that occur
\* for f (for use_cases: the entries of the lists), none twice, ascending.
C6_UniqueValues ==
    (output.op = "get_unique_values" /\ output.value # KeyError) =>
       LET q == output.value[2]
       IN  /\ { q[i] : i \in 1..Len(q) } = Occurring(input, output.args[1])
           /\ \A i \in 1..Len(q) : \A j \in 1..Len(q) :
                 i < j => (q[i] # q[j] /\ PyLess(q[i], q[j]))

\* The use cases of two records that share one: the shared one once, sorted.
C6_Witness ==
    /\ output.op = "get_unique_values"
    /\ output.args = <<"use_cases">>
    /\ output.value = Ok(<<PyStr("IoT"), PyStr("Medical")>>)
    /\ Len(input) = 2
    /\ Len(input[1]["use_cases"][2]) + Len(input[2]["use_cases"][2]) = 3

\* Two records, both with age_in_market the integer 3.
TwoAgedThree ==
    /\ Len(input) = 2
    /\ \A i \in 1..2 :
          "age_in_market" \in DOMAIN input[i]
          /\ input[i]["age_in_market"] = PyInt(3)

\* C7 as stated: for two records with age_in_market 3 the result is the one
\* string "3".
C7_ReturnsStrings ==
    (output.op = "get_unique_values" /\ output.args = <<"age_in_market">>
     /\ TwoAgedThree)
    => output.value = Ok(<<PyStr("3")>>)

\* C7 amended: get_unique_values returns the values with the type they have
\* in the records: strings for the text fields and use_cases, integers for
\* age_in_market; for two records with age_in_market 3 the result is the one
\* integer 3.
C7_ReturnsValuesAsStored ==
    (output.op = "get_unique_values" /\ output.value # KeyError) =>
       /\ \A i \in 1..Len(output.value[2]) :
             IsInt(output.value[2][i]) <=> output.args = <<"age_in_market">>
       /\ (output.args = <<"age_in_market">> /\ TwoAgedThree)
             => output.value = Ok(<<PyInt(3)>>)

C7_Witness ==
    /\ output.op = "get_unique_values"
    /\ output.args = <<"age_in_market">>
    /\ TwoAgedThree
    /\ input[1] # input[2]
    /\ output.value = Ok(<<PyInt(3)>>)

Encoders == {"csv", "pdf", "xml", "json"}

Incomplete(database) == \E i \in 1..Len(database) : DOMAIN database[i] # Fields

FieldCells(cells, n) ==
    { c \in 2..Len(cells) : (c - 2) % n # 0 /\ cells[c] # "" }

\* C9 as stated: for each record the PDF has a heading line followed by one
\* line for each of the ten fields (and the separator).
C9_AllFieldsInPdf ==
    (output.op = "pdf" /\ Complete(input)) =>
       LET cells == output.value[2][2]
       IN  /\ Len(cells) = 1 + 12 * Len(input)
           /\ Cardinality(FieldCells(cells, 12)) = 10 * Len(input)

\* C9 amended: export_to_pdf writes the title and then, for each record in
\* input order, eight cells: the heading "{make} - {model_number}", six field
\* lines (Form Factor, Use Cases, Purpose, Market Use, Age in Market,
\* Competing Products) and an empty line.  No record is left out; model and
\* entry_date are not written, make and model_number only in the heading.
C9_PdfLines ==
    (output.op = "pdf" /\ output.value # KeyError) =>
       LET cells == output.value[2][2]
       IN  /\ Len(cells) = 1 + 8 * Len(input)
           /\ cells[1] = "PCB Research Results"
           /\ \A i \in 1..Len(input) :
                 LET pcb == input[i]
                     at == 1 + 8 * (i - 1)
                 IN  /\ cells[at + 1] =
                          pcb["make"][2] \o " - " \o pcb["model_number"][2]
                     /\ cells[at + 2] = "Form Factor: " \o pcb["form_factor"][2]
                     /\ cells[at + 3] =
                          "Use Cases: " \o Join(", ", Texts(pcb["use_cases"]))
                     /\ cells[at + 4] = "Purpose: " \o pcb["purpose"][2]
                     /\ cells[at + 5] = "Market Use: " \o pcb["market_use"][2]
                     /\ cells[at + 6] =
                          "Age in Market: " \o IntStr(pcb["age_in_market"][2])
                             \o " years"
                     /\ cells[at + 7] =
                          "Competing Products: " \o pcb["competing_products"][2]
                     /\ cells[at + 8] = ""

\* The PDF of two different complete records, one with a model name.
C9_Witness ==
    /\ output.op = "pdf"
    /\ Len(input) = 2
    /\ Complete(input)
    /\ input[1] # input[2]
    /\ input[1]["model"] = PyStr("Ranger")
    /\ Len(output.value[2][2]) = 17

====
